---- MODULE Spec2Model ----
(***************************************************************************)
(* Personal AI Data Analyst: the schema profiler, the suggestion           *)
(* generator and the intent matcher of prompt_engine.py, the execution     *)
(* sandbox of code_runner.py and the "Run analysis" handler of app.py.     *)
(*                                                                         *)
(* A Python str is a sequence of one-character strings, so that lower(),   *)
(* strip(), "in", startswith() and re.search() are computed character by   *)
(* character as the interpreter computes them.                             *)
(***************************************************************************)
EXTENDS Integers, Sequences, FiniteSets, TLC

VARIABLES df, types, max_suggestions, suggestions, selected, final_prompt, code,
          frag, figs_before, open_figs, res, raised,
          pc, use_llm, llm_out, runs, shown

vars == <<df, types, max_suggestions, suggestions, selected, final_prompt, code,
          frag, figs_before, open_figs, res, raised,
          pc, use_llm, llm_out, runs, shown>>

(***************************************************************************)
(* str primitives                                                          *)
(***************************************************************************)

\* the upper-case letters and their lower-case forms (str.lower, ASCII)
lowerOf == [c \in {"A","B","C","D","E","F","G","H","I","J","K","L","M","N","O","P","Q","R","S","T","U","V","W","X","Y","Z"} |->
             CASE c = "A" -> "a" [] c = "B" -> "b" [] c = "C" -> "c" [] c = "D" -> "d"
               [] c = "E" -> "e" [] c = "F" -> "f" [] c = "G" -> "g" [] c = "H" -> "h"
               [] c = "I" -> "i" [] c = "J" -> "j" [] c = "K" -> "k" [] c = "L" -> "l"
               [] c = "M" -> "m" [] c = "N" -> "n" [] c = "O" -> "o" [] c = "P" -> "p"
               [] c = "Q" -> "q" [] c = "R" -> "r" [] c = "S" -> "s" [] c = "T" -> "t"
               [] c = "U" -> "u" [] c = "V" -> "v" [] c = "W" -> "w" [] c = "X" -> "x"
               [] c = "Y" -> "y" [] c = "Z" -> "z"]

\* str.lower()
lower(s) == [i \in 1..Len(s) |-> IF s[i] \in DOMAIN lowerOf THEN lowerOf[s[i]] ELSE s[i]]

\* the characters str.strip() removes
Whitespace == {" ", "\n", "\t", "\r"}

\* str.strip(): drop the leading and the trailing whitespace
strip(s) ==
    LET keep == {i \in 1..Len(s) : s[i] \notin Whitespace}
        Min(S) == CHOOSE m \in S : \A k \in S : m <= k
        Max(S) == CHOOSE m \in S : \A k \in S : m >= k
    IN  IF keep = {} THEN <<>> ELSE SubSeq(s, Min(keep), Max(keep))

\* t occurs in s starting at index i
occursAt(s, t, i) ==
    /\ i >= 1
    /\ i + Len(t) - 1 <= Len(s)
    /\ \A k \in 1..Len(t) : s[i + k - 1] = t[k]

\* s.startswith(t)
startswith(s, t) == occursAt(s, t, 1)

\* t in s
contains(s, t) == \E i \in 1..(Len(s) - Len(t) + 1) : occursAt(s, t, i)

\* index of the first character q of s at or after index i, Len(s)+1 when none
nextChar(s, q, i) ==
    IF \E j \in i..Len(s) : s[j] = q
    THEN CHOOSE j \in i..Len(s) : s[j] = q /\ \A k \in i..(j - 1) : s[k] # q
    ELSE Len(s) + 1

(***************************************************************************)
(* re.search for the patterns of prompt_to_code.  Every pattern is a       *)
(* literal, a group ([^q]+), and a literal that begins with q (and then    *)
(* once more); [^q]+ cannot cross a q, so the group ends at the first q    *)
(* after it starts.  The result is the tuple of the groups of the leftmost *)
(* match, or NoMatch (Python's None).                                      *)
(***************************************************************************)
NoMatch == <<>>

\* pre ([^q]+) post   matched at index i of s: the group, or NoMatch
matchOne(s, pre, q, post, i) ==
    IF ~occursAt(s, pre, i) THEN NoMatch
    ELSE LET a == i + Len(pre)
             j == nextChar(s, q, a)
         IN  IF j > a /\ occursAt(s, post, j) THEN <<SubSeq(s, a, j - 1)>> ELSE NoMatch

\* re.search(pre ([^q]+) post, s)
searchOne(s, pre, q, post) ==
    LET hits == {i \in 1..Len(s) : matchOne(s, pre, q, post, i) # NoMatch}
    IN  IF hits = {} THEN NoMatch
        ELSE matchOne(s, pre, q, post, CHOOSE i \in hits : \A k \in hits : i <= k)

\* pre ([^q]+) mid ([^q]+) post   matched at index i of s
matchTwo(s, pre, q, mid, post, i) ==
    IF ~occursAt(s, pre, i) THEN NoMatch
    ELSE LET a == i + Len(pre)
             j == nextChar(s, q, a)
         IN  IF ~(j > a /\ occursAt(s, mid, j)) THEN NoMatch
             ELSE LET b == j + Len(mid)
                      k == nextChar(s, q, b)
                  IN  IF k > b /\ occursAt(s, post, k)
                      THEN <<SubSeq(s, a, j - 1), SubSeq(s, b, k - 1)>>
                      ELSE NoMatch

\* re.search(pre ([^q]+) mid ([^q]+) post, s)
searchTwo(s, pre, q, mid, post) ==
    LET hits == {i \in 1..Len(s) : matchTwo(s, pre, q, mid, post, i) # NoMatch}
    IN  IF hits = {} THEN NoMatch
        ELSE matchTwo(s, pre, q, mid, post, CHOOSE i \in hits : \A k \in hits : i <= k)

(***************************************************************************)
(* prompt_to_code: the intent matcher and the code synthesizer.            *)
(* A synthesized code string is the record of its template (intent) and    *)
(* of the column names the f-string substitutes into it, in the order of   *)
(* the template's parameters.                                              *)
(***************************************************************************)

\* Python's None, returned for an unrecognized prompt
None == [intent |-> "None", cols |-> <<>>]

\* the code string of template `intent` rendered with the names `cols`
Code(intent, cols) == [intent |-> intent, cols |-> cols]

\* the ten templates, in the order prompt_to_code tests them
Intents == <<"summary", "top_counts", "describe", "histogram", "scatter",
             "top_rows", "monthly_sum", "counts_per_month", "corr_heatmap", "anomalies">>

\* the text the templates' recognizers look for in the lowered prompt
kw_summarize      == <<"s","u","m","m","a","r","i","z","e"," ","t","h","e"," ","d","a","t","a","s","e","t">>
kw_top_counts_col == <<"t","o","p"," ","1","0"," ","c","o","u","n","t","s"," ","f","o","r"," ","t","h","e"," ","c","a","t","e","g","o","r","i","c","a","l"," ","c","o","l","u","m","n">>
kw_top_counts     == <<"t","o","p"," ","1","0"," ","c","o","u","n","t","s">>
kw_summary_stats  == <<"s","u","m","m","a","r","y"," ","s","t","a","t","i","s","t","i","c","s">>
kw_describe       == <<"d","e","s","c","r","i","b","e">>
kw_create_hist    == <<"c","r","e","a","t","e"," ","a"," ","h","i","s","t","o","g","r","a","m"," ","o","f"," ","t","h","e"," ","n","u","m","e","r","i","c"," ","c","o","l","u","m","n">>
kw_hist           == <<"h","i","s","t","o","g","r","a","m"," ","o","f"," ","t","h","e"," ","n","u","m","e","r","i","c"," ","c","o","l","u","m","n">>
kw_scatter        == <<"s","c","a","t","t","e","r"," ","p","l","o","t"," ","c","o","m","p","a","r","i","n","g">>
kw_vs             == <<"v","s">>
kw_top_rows       == <<"s","h","o","w"," ","t","h","e"," ","t","o","p"," ","1","0"," ","r","o","w","s"," ","s","o","r","t","e","d"," ","b","y">>
kw_monthly_sum    == <<"m","o","n","t","h","l","y"," ","s","u","m">>
kw_using_dt       == <<"u","s","i","n","g"," ","t","h","e"," ","d","a","t","e","t","i","m","e"," ","c","o","l","u","m","n">>
kw_counts_month   == <<"c","o","u","n","t","s"," ","p","e","r"," ","m","o","n","t","h"," ","u","s","i","n","g"," ","t","h","e"," ","d","a","t","e","t","i","m","e"," ","c","o","l","u","m","n">>
kw_corr_matrix    == <<"c","o","r","r","e","l","a","t","i","o","n"," ","m","a","t","r","i","x"," ","h","e","a","t","m","a","p">>
kw_corr           == <<"c","o","r","r","e","l","a","t","i","o","n"," ","h","e","a","t","m","a","p">>
kw_anomalies      == <<"a","n","o","m","a","l","i","e","s">>
kw_zscore         == <<"z","-","s","c","o","r","e">>

\* the literal parts of the extraction patterns
SQ == "'"
DQ == "\""
re_by          == <<"b","y"," ","'">>
re_sum_of      == <<"s","u","m"," ","o","f"," ","'">>
re_using_dt    == <<"'"," ","u","s","i","n","g"," ","t","h","e"," ","d","a","t","e","t","i","m","e"," ","c","o","l","u","m","n"," ","'">>
re_dt_col      == <<"d","a","t","e","t","i","m","e"," ","c","o","l","u","m","n"," ","'">>
\* r"'([^']+)' \\(x\\) vs '([^']+)' \\(y\\)": in the raw string \\ is an escaped
\* backslash and ( opens a group, so the pattern is  '(G1)' \(x\) vs '(G3)' \(y\)
\* with the literal text  ' \x\ vs '  and  ' \y\  and the groups 2 = x\ and 4 = y\
re_x_vs        == <<"'"," ","\\","x","\\"," ","v","s"," ","'">>
re_y           == <<"'"," ","\\","y","\\">>
grp_x          == <<"x","\\">>
grp_y          == <<"y","\\">>

\* the recognizer of template i on the stripped, lowered prompt p
Recognizes(i, p) ==
    CASE i = 1  -> startswith(p, kw_summarize)
      [] i = 2  -> contains(p, kw_top_counts_col) \/ (contains(p, kw_top_counts) /\ contains(p, <<SQ>>))
      [] i = 3  -> contains(p, kw_summary_stats) \/ contains(p, kw_describe)
      [] i = 4  -> startswith(p, kw_create_hist) \/ contains(p, kw_hist)
      [] i = 5  -> contains(p, kw_scatter) /\ contains(p, kw_vs)
      [] i = 6  -> startswith(p, kw_top_rows)
      [] i = 7  -> contains(p, kw_monthly_sum) /\ contains(p, kw_using_dt)
      [] i = 8  -> contains(p, kw_counts_month)
      [] i = 9  -> contains(p, kw_corr_matrix) \/ contains(p, kw_corr)
      [] i = 10 -> contains(p, kw_anomalies) /\ contains(p, kw_zscore)

\* the groups re.search gives template i on the original prompt: the match
\* object's groups, NoMatch for None; a template that takes no parameter
\* searches nothing
Groups(i, prompt) ==
    CASE i = 2 -> LET m == searchOne(prompt, <<SQ>>, SQ, <<SQ>>)
                  IN  IF m = NoMatch THEN searchOne(prompt, <<DQ>>, DQ, <<DQ>>) ELSE m
      [] i = 4 -> searchOne(prompt, <<SQ>>, SQ, <<SQ>>)
      [] i = 5 -> LET m == searchTwo(prompt, <<SQ>>, SQ, re_x_vs, re_y)
                  IN  IF m = NoMatch THEN NoMatch ELSE <<m[1], grp_x, m[2], grp_y>>
      [] i = 6 -> searchOne(prompt, re_by, SQ, <<SQ>>)
      [] i = 7 -> searchTwo(prompt, re_sum_of, SQ, re_using_dt, <<SQ>>)
      [] i = 8 -> searchOne(prompt, re_dt_col, SQ, <<SQ>>)
      [] OTHER -> NoMatch

\* the column names template i embeds, from the match m: m.group(1) for one
\* column, m.group(1), m.group(2) for two
Params(i, m) ==
    CASE i \in {5, 7} -> <<m[1], m[2]>>
      [] i \in {2, 4, 6, 8} -> <<m[1]>>
      [] OTHER -> <<>>

\* the body of the i-th `if` of prompt_to_code: the code it returns, or None
\* when control falls through to the next `if`
Template(i, p, prompt) ==
    IF ~Recognizes(i, p) THEN None
    ELSE IF i \in {1, 3, 9, 10} THEN Code(Intents[i], <<>>)
    ELSE LET m == Groups(i, prompt)
         IN  IF m = NoMatch THEN None ELSE Code(Intents[i], Params(i, m))

\* a plausible slip: a recognized template whose extraction fails returns None
\* at once instead of falling through
RECURSIVE chainNoFallThrough(_, _, _)
chainNoFallThrough(i, p, prompt) ==
    IF i > Len(Intents) THEN None
    ELSE IF Recognizes(i, p) THEN Template(i, p, prompt)
    ELSE chainNoFallThrough(i + 1, p, prompt)

\* the chain of `if`s from the i-th on: the first that returns decides
RECURSIVE chain(_, _, _)
chain(i, p, prompt) ==
    IF i > Len(Intents) THEN None
    ELSE LET c == Template(i, p, prompt)
         IN  IF c # None THEN c ELSE chain(i + 1, p, prompt)

\* prompt_to_code(prompt, df); df is not read
prompt_to_code(prompt, dataset) ==
    LET p == lower(strip(prompt)) IN chain(1, p, prompt)

(***************************************************************************)
(* The dataset and the schema profiler.                                    *)
(* A column is its name and what _detect_column_types reads of it:         *)
(*   dtype   "number" (np.number), "datetime64" or "object";               *)
(*   sample  the number of values in df[c].dropna().astype(str).iloc[:20]; *)
(*   parsed  how many of them pd.to_datetime(errors="coerce") parses;      *)
(*   raises  whether building or parsing the sample raises;                *)
(*   nunique df[c].nunique(dropna=True).                                   *)
(* A numeric column of years (2020, 2021, ...) has dtype "number" and      *)
(* every value of its sample parses as a date.                             *)
(***************************************************************************)

\* the most columns of a dataset the model draws
MaxCols == 2

\* .iloc[:20]
SampleCap == 20

\* nunique(dropna=True) <= 50
MaxCategories == 50

Column(name, dtype, sample, parsed, raises, nunique) ==
    [name |-> name, dtype |-> dtype, sample |-> sample, parsed |-> parsed,
     raises |-> raises, nunique |-> nunique]

\* max(a, b), min(a, b)
max(a, b) == IF a >= b THEN a ELSE b
min(a, b) == IF a <= b THEN a ELSE b

\* the names of the columns of d, in column order: df.columns
columns(d) == [i \in 1..Len(d) |-> d[i].name]

\* the names of the columns of d whose index is in idx, from index i on
RECURSIVE pickNames(_, _, _)
pickNames(d, idx, i) ==
    IF i > Len(d) THEN <<>>
    ELSE (IF i \in idx THEN <<d[i].name>> ELSE <<>>) \o pickNames(d, idx, i + 1)

\* x in list
inList(x, s) == \E i \in 1..Len(s) : s[i] = x

\* the `for c in df.columns` loop body's test: c is appended to datetime_cols
isDatetime(c) ==
    IF c.dtype = "datetime64" THEN TRUE
    ELSE /\ ~c.raises
         /\ c.parsed >= max(1, min(5, c.sample \div 2))

\* _detect_column_types(df)
detect_column_types(d) ==
    LET cols          == 1..Len(d)
        numeric       == pickNames(d, {i \in cols : d[i].dtype = "number"}, 1)
        datetime_cols == pickNames(d, {i \in cols : isDatetime(d[i])}, 1)
        categorical   == pickNames(d, {i \in cols : /\ ~inList(d[i].name, numeric \o datetime_cols)
                                                     /\ d[i].nunique <= MaxCategories}, 1)
    IN  [numeric |-> numeric, datetime |-> datetime_cols, categorical |-> categorical]

(***************************************************************************)
(* suggest_prompts                                                         *)
(***************************************************************************)
p_summary      == <<"S","u","m","m","a","r","i","z","e"," ","t","h","e"," ","d","a","t","a","s","e","t"," ","i","n"," ","5"," ","b","u","l","l","e","t"," ","p","o","i","n","t","s"," ","(","r","o","w","s",","," ","c","o","l","u","m","n","s",","," ","m","i","s","s","i","n","g"," ","v","a","l","u","e","s",","," ","n","u","m","e","r","i","c"," ","c","o","l","u","m","n","s",","," ","t","o","p"," ","c","a","t","e","g","o","r","i","c","a","l",")",".">>
p_top_counts_a == <<"S","h","o","w"," ","t","h","e"," ","t","o","p"," ","1","0"," ","c","o","u","n","t","s"," ","f","o","r"," ","t","h","e"," ","c","a","t","e","g","o","r","i","c","a","l"," ","c","o","l","u","m","n"," ","'">>
p_quote_dot    == <<"'",".">>
p_stats        == <<"S","h","o","w"," ","s","u","m","m","a","r","y"," ","s","t","a","t","i","s","t","i","c","s"," ","(","c","o","u","n","t",","," ","m","e","a","n",","," ","s","t","d",","," ","m","i","n",","," ","2","5","%",","," ","5","0","%",","," ","7","5","%",","," ","m","a","x",")"," ","f","o","r"," ","n","u","m","e","r","i","c"," ","c","o","l","u","m","n","s",".">>
p_hist_a       == <<"C","r","e","a","t","e"," ","a"," ","h","i","s","t","o","g","r","a","m"," ","o","f"," ","t","h","e"," ","n","u","m","e","r","i","c"," ","c","o","l","u","m","n"," ","'">>
p_scatter_a    == <<"C","r","e","a","t","e"," ","a"," ","s","c","a","t","t","e","r"," ","p","l","o","t"," ","c","o","m","p","a","r","i","n","g"," ","'">>
p_scatter_b    == <<"'"," ","(","x",")"," ","v","s"," ","'">>
p_scatter_c    == <<"'"," ","(","y",")",".">>
p_top_rows_a   == <<"S","h","o","w"," ","t","h","e"," ","t","o","p"," ","1","0"," ","r","o","w","s"," ","s","o","r","t","e","d"," ","b","y"," ","'">>
p_top_rows_b   == <<"'"," ","d","e","s","c","e","n","d","i","n","g",".">>
p_monthly_a    == <<"C","r","e","a","t","e"," ","a"," ","t","i","m","e"," ","s","e","r","i","e","s"," ","o","f"," ","m","o","n","t","h","l","y"," ","s","u","m"," ","o","f"," ","'">>
p_monthly_b    == <<"'"," ","u","s","i","n","g"," ","t","h","e"," ","d","a","t","e","t","i","m","e"," ","c","o","l","u","m","n"," ","'">>
p_counts_a     == <<"S","h","o","w"," ","c","o","u","n","t","s"," ","p","e","r"," ","m","o","n","t","h"," ","u","s","i","n","g"," ","t","h","e"," ","d","a","t","e","t","i","m","e"," ","c","o","l","u","m","n"," ","'">>
p_corr         == <<"S","h","o","w"," ","t","h","e"," ","c","o","r","r","e","l","a","t","i","o","n"," ","m","a","t","r","i","x"," ","h","e","a","t","m","a","p"," ","f","o","r"," ","n","u","m","e","r","i","c"," ","c","o","l","u","m","n","s",".">>
p_anomalies    == <<"F","i","n","d"," ","r","o","w","s"," ","t","h","a","t"," ","l","o","o","k"," ","l","i","k","e"," ","a","n","o","m","a","l","i","e","s"," ","u","s","i","n","g"," ","z","-","s","c","o","r","e"," ",">"," ","3"," ","o","n"," ","n","u","m","e","r","i","c"," ","c","o","l","u","m","n","s"," ","a","n","d"," ","s","h","o","w"," ","t","o","p"," ","2","0",".">>

\* the default of max_suggestions
DefaultMaxSuggestions == 8

\* a plausible slip: the list is returned whole
slice_none(s, n) == s

\* list[:n], for any integer n: a negative n counts from the end
slice_to(s, n) ==
    LET stop == IF n < 0 THEN max(Len(s) + n, 0) ELSE min(n, Len(s))
    IN  SubSeq(s, 1, stop)

\* the suggestions before truncation, each with the kind of analysis it asks for
all_suggestions(d) ==
    LET t           == detect_column_types(d)
        numeric     == t.numeric
        datetime    == t.datetime
        categorical == t.categorical
        ag          == IF numeric # <<>> THEN numeric[1] ELSE <<>>
    IN     <<[kind |-> "summary", text |-> p_summary, cols |-> <<>>]>>
        \o (IF categorical # <<>>
            THEN <<[kind |-> "top_counts", text |-> p_top_counts_a \o categorical[1] \o p_quote_dot,
                    cols |-> <<categorical[1]>>]>>
            ELSE <<>>)
        \o (IF numeric # <<>>
            THEN    <<[kind |-> "describe", text |-> p_stats, cols |-> <<>>],
                      [kind |-> "histogram", text |-> p_hist_a \o numeric[1] \o p_quote_dot,
                       cols |-> <<numeric[1]>>]>>
                 \o (IF Len(numeric) >= 2
                     THEN <<[kind |-> "scatter",
                             text |-> p_scatter_a \o numeric[1] \o p_scatter_b \o numeric[2] \o p_scatter_c,
                             cols |-> <<numeric[1], numeric[2]>>]>>
                     ELSE <<>>)
                 \o <<[kind |-> "top_rows", text |-> p_top_rows_a \o numeric[1] \o p_top_rows_b,
                       cols |-> <<numeric[1]>>]>>
            ELSE <<>>)
        \o (IF datetime # <<>>
            THEN IF ag # <<>>
                 THEN <<[kind |-> "monthly_sum",
                         text |-> p_monthly_a \o ag \o p_monthly_b \o datetime[1] \o p_quote_dot,
                         cols |-> <<ag, datetime[1]>>]>>
                 ELSE <<[kind |-> "counts_per_month", text |-> p_counts_a \o datetime[1] \o p_quote_dot,
                         cols |-> <<datetime[1]>>]>>
            ELSE <<>>)
        \o (IF Len(numeric) >= 2
            THEN <<[kind |-> "corr_heatmap", text |-> p_corr, cols |-> <<>>]>>
            ELSE <<>>)
        \o <<[kind |-> "anomalies", text |-> p_anomalies, cols |-> <<>>]>>

\* suggest_prompts(df, max_suggestions)
suggest_prompts(d, n) ==
    LET s == all_suggestions(d) IN slice_to([i \in 1..Len(s) |-> s[i].text], n)

(***************************************************************************)
(* run_code: the execution sandbox.                                        *)
(* A code fragment is what exec(code, {}, local_ns) does:                  *)
(*   fig    the figure it opens with plt.figure(): "none", "ok", or "bad"  *)
(*          for a figure that plt.savefig cannot render (it raises);       *)
(*   exc    what exec raises after that: "none", "Exception" for a class   *)
(*          under Exception, "SystemExit" or "KeyboardInterrupt" for one   *)
(*          under BaseException only;                                      *)
(*   img    local_ns["result_img_path"]: "unset", "None", "" (empty str),  *)
(*          "chart.png", or "array" (an array or DataFrame, whose truth    *)
(*          value raises ValueError);                                      *)
(*   result local_ns["result"]: "unset", "DataFrame", "str", or            *)
(*          "unprintable" (an object whose __str__ raises);                *)
(*   out    the text it prints.                                            *)
(* plt's open figures are process-wide: open_figs lists them, the current  *)
(* figure last.                                                            *)
(***************************************************************************)

\* the most figures the model lets stay open at once
MaxFigs == 2

Fragment(fig, exc, img, result, out) ==
    [fig |-> fig, exc |-> exc, img |-> img, result |-> result, out |-> out]

\* what a fragment may print
Prints == {<<>>, <<" ", "\n">>, <<"h", "i", "\n">>}

\* the fragments the model runs; one that raises leaves nothing in local_ns
\* that run_code reads
Fragments ==
    {Fragment(f, "none", i, r, o) :
        f \in {"none", "ok", "bad"}, i \in {"unset", "None", "", "chart.png", "array"},
        r \in {"unset", "DataFrame", "str", "unprintable"}, o \in Prints}
    \cup {Fragment(f, e, "unset", "unset", <<>>) :
        f \in {"none", "ok", "bad"}, e \in {"Exception", "SystemExit", "KeyboardInterrupt"}}

\* the exception classes `except Exception` catches
CaughtByExceptException == {"Exception"}

\* the three result dicts
ImageResult(path) == [type |-> "image", content |-> path]
DataframeResult(d) == [type |-> "dataframe", content |-> d]
TextResult(s) == [type |-> "text", content |-> s]

\* no dict: run_code did not return
NoResult == [type |-> "none", content |-> <<>>]

\* f"Execution error: {e}"
ExecutionError(e) == TextResult(<<"Execution error: ", e>>)
NoResultText == TextResult(<<"Execution finished. No result produced.">>)

\* the outcome of a call: the dict returned, the exception that left run_code
\* ("none" when it returned) and plt's open figures afterwards
Outcome(r, e, figs) == [res |-> r, raised |-> e, figs |-> figs]

\* an exception e raised inside the try block, with figs open
handle(e, figs) ==
    IF e \in CaughtByExceptException
    THEN Outcome(ExecutionError(e), "none", figs)
    ELSE Outcome(NoResult, e, figs)

\* lines 43-56: the result variable, the printed text, the fallback
classify_result(fr, figs) ==
    IF fr.result # "unset"
    THEN IF fr.result = "DataFrame" THEN Outcome(DataframeResult(<<"result of", fr>>), "none", figs)
         ELSE IF fr.result = "unprintable" THEN handle("Exception", figs)
         ELSE Outcome(TextResult(<<"str(result) of", fr>>), "none", figs)
    ELSE IF strip(fr.out) # <<>> THEN Outcome(TextResult(strip(fr.out)), "none", figs)
    ELSE Outcome(NoResultText, "none", figs)

\* a plausible slip: the result variable is looked at before the figures
classify_result_first(fr, figs) ==
    IF fr.result # "unset" THEN classify_result(fr, figs)
    ELSE IF figs # <<>>
    THEN IF figs[Len(figs)] = "bad" THEN handle("Exception", figs)
         ELSE Outcome(ImageResult("NamedTemporaryFile.png"), "none", <<>>)
    ELSE classify_result(fr, figs)

\* lines 35-56: an open figure is saved and all figures are closed, else the
\* result variable and the printed text are looked at
classify_figure(fr, figs) ==
    IF figs # <<>>
    THEN IF figs[Len(figs)] = "bad" THEN handle("Exception", figs)
         ELSE Outcome(ImageResult("NamedTemporaryFile.png"), "none", <<>>)
    ELSE classify_result(fr, figs)

\* lines 30-56: what run_code does once exec has returned, with figs open
classify(fr, figs) ==
    IF fr.img = "array" THEN handle("Exception", figs)
    ELSE IF fr.img = "chart.png" THEN Outcome(ImageResult(fr.img), "none", figs)
    ELSE classify_figure(fr, figs)

\* run_code(df, code) called with the figures `figs` open
run_code(fr, figs) ==
    LET opened == IF fr.fig = "none" THEN figs ELSE Append(figs, fr.fig)
    IN  IF fr.exc # "none" THEN handle(fr.exc, opened)
        ELSE classify(fr, opened)

(***************************************************************************)
(* What exec does with a code string.  Synthesized code reads the columns  *)
(* it names (a missing column is a KeyError); the chart templates open a   *)
(* figure first and end with result_img_path = None.  Code taken from the  *)
(* provider's answer may be any fragment.                                  *)
(***************************************************************************)
ChartIntents == {"histogram", "scatter", "corr_heatmap"}

Effects(c, d) ==
    LET known  == \A i \in 1..Len(c.cols) : inList(c.cols[i], columns(d))
        fails  == Fragment(IF c.intent \in ChartIntents THEN "ok" ELSE "none",
                           "Exception", "unset", "unset", <<>>)
        chart  == Fragment("ok", "none", "None", "unset", <<>>)
        table  == Fragment("none", "none", "unset", "DataFrame", <<>>)
        text   == Fragment("none", "none", "unset", "str", <<>>)
    IN  IF c.intent = "llm" THEN Fragments
        ELSE IF c.intent = "summary" THEN {text}
        ELSE IF ~known THEN {fails}
        ELSE IF c.intent \in ChartIntents THEN {chart, fails}
        ELSE {table, fails}

(***************************************************************************)
(* app.py: the "Run analysis" handler, lines 94-167.                       *)
(***************************************************************************)
\* the backquote character (written out: the parser reads a backquote in a
\* string as the start of a quoted passage)
bq == "backquote"

llm_sentinel == <<"[","L","L","M","-","e","r","r","o","r","]">>
fence_python == <<bq,bq,bq,"p","y","t","h","o","n">>
fence        == <<bq,bq,bq>>

\* what ask_llm may return
LLMOutputs ==
    { llm_sentinel, <<"[","L","L","M","-","e","r","r","o","r","]"," ","G","R","O","Q","_","A","P","I","_","K","E","Y"," ","i","s"," ","n","o","t"," ","s","e","t",".">>,
      <<"[","L","L","M","-","e","r","r","o","r","]"," ",bq,bq,bq,"p","y","t","h","o","n"," ","x"," ",bq,bq,bq>>,
      <<bq,bq,bq,"p","y","t","h","o","n"," ","x"," ",bq,bq,bq>>,
      <<"H","e","r","e",":"," ",bq,bq,bq,"p","y","t","h","o","n"," ","x"," ",bq,bq,bq," ","d","o","n","e">>,
      <<"r","e","s","u","l","t"," ","="," ","d","f",".","d","e","s","c","r","i","b","e","(",")">>,
      <<bq,bq,bq," ","x"," ",bq,bq,bq>> }

\* what the user may type in the custom prompt box
CustomTexts ==
    { NoMatch, <<" "," ">>, <<"t","e","l","l"," ","m","e"," ","a"," ","j","o","k","e"," ","a","b","o","u","t"," ","t","h","e"," ","d","a","t","a">>, <<" ","d","e","s","c","r","i","b","e"," ","t","h","e"," ","d","a","t","a"," ">>,
      <<"t","o","p"," ","1","0"," ","c","o","u","n","t","s"," ","f","o","r"," ","\"","q","t","y","\"">> }

\* s.split(sep, 1)[1] when sep occurs in s: the text after its first occurrence
after_first(s, sep) ==
    LET i == CHOOSE k \in 1..Len(s) : occursAt(s, sep, k) /\ \A j \in 1..(k - 1) : ~occursAt(s, sep, j)
    IN  SubSeq(s, i + Len(sep), Len(s))

\* s.split(sep, 1)[0]: the text before the first occurrence of sep, all of s when none
before_first(s, sep) ==
    IF ~contains(s, sep) THEN s
    ELSE LET i == CHOOSE k \in 1..Len(s) : occursAt(s, sep, k) /\ \A j \in 1..(k - 1) : ~occursAt(s, sep, j)
         IN  SubSeq(s, 1, i - 1)

\* line 94: custom.strip() if custom and custom.strip() else selected
final_prompt_of(custom, sel) ==
    IF custom # <<>> /\ strip(custom) # <<>> THEN strip(custom) ELSE sel

\* the state of the session before a file is uploaded, and between runs
Blank ==
    /\ types = [numeric |-> <<>>, datetime |-> <<>>, categorical |-> <<>>]
    /\ max_suggestions = DefaultMaxSuggestions
    /\ suggestions = <<>>
    /\ selected = 0
    /\ final_prompt = <<>>
    /\ code = None
    /\ frag = Fragment("none", "none", "unset", "unset", <<>>)
    /\ figs_before = <<>>
    /\ open_figs = <<>>
    /\ res = NoResult
    /\ raised = "none"
    /\ use_llm = FALSE
    /\ llm_out = <<>>
    /\ runs = 0
    /\ shown = "nothing"

(***************************************************************************)
(* The datasets the model loads                                            *)
(***************************************************************************)

\* what the profiler may read of a column: every dtype with sample sizes on
\* both sides of the threshold max(1, min(5, sample // 2)), and a sample
\* whose parsing raises
ProfileColumns(name) ==
    {Column(name, t, sp[1], sp[2], FALSE, u) :
        t \in {"number", "datetime64", "object"},
        sp \in {<<0, 0>>, <<1, 1>>, <<4, 1>>, <<4, 2>>, <<SampleCap, 4>>, <<SampleCap, 5>>},
        u \in {MaxCategories, MaxCategories + 1}}
    \cup {Column(name, t, 4, 4, TRUE, MaxCategories) : t \in {"number", "object"}}

\* names of the columns of a profiled dataset, by position
PositionNames == << <<"c","1">>, <<"c","2">>, <<"c","3">>, <<"c","4">> >>

\* datasets of n columns with every combination of column kinds
RECURSIVE ProfileDatasetsOf(_)
ProfileDatasetsOf(n) ==
    IF n = 0 THEN {<<>>}
    ELSE {Append(d, c) : d \in ProfileDatasetsOf(n - 1), c \in ProfileColumns(PositionNames[n])}

\* datasets of up to MaxCols columns
ProfileDatasets == UNION {ProfileDatasetsOf(n) : n \in 0..MaxCols}

\* column names: plain, with an apostrophe, and holding a recognizer phrase
n_amt == <<"a","m","t">>
n_qty == <<"q","t","y">>
n_oc == <<"o","'","c">>
n_describe == <<"d","e","s","c","r","i","b","e">>
PromptNames == {n_amt, n_qty, n_oc, n_describe}

\* a numeric column, a numeric column of years, a text column of dates and a
\* text column of few categories
PromptColumns ==
    UNION {{Column(n, "number", 4, 0, FALSE, MaxCategories + 1),
            Column(n, "number", 4, 4, FALSE, MaxCategories + 1),
            Column(n, "object", 4, 4, FALSE, MaxCategories + 1),
            Column(n, "object", 4, 0, FALSE, 5)} : n \in PromptNames}

\* the same kinds of column under plain names only
n_date == <<"d","a","t","e">>
PlainColumns == {c \in PromptColumns : c.name \in {n_amt, n_qty}}
    \cup {Column(n_date, "object", 4, 4, FALSE, MaxCategories + 1),
          Column(n_date, "object", 4, 0, FALSE, 5)}

\* datasets of up to MaxCols plainly named columns with distinct names
PlainDatasets ==
    UNION {{d \in [1..n -> PlainColumns] :
               \A i, j \in 1..n : i # j => d[i].name # d[j].name} : n \in 0..MaxCols}

\* datasets of up to MaxCols columns with distinct names
PromptDatasets ==
    UNION {{d \in [1..n -> PromptColumns] :
               \A i, j \in 1..n : i # j => d[i].name # d[j].name} : n \in 0..MaxCols}

\* the dataset of the documented scenario (amount, category, date), one with
\* two numeric columns, and one with no column
d_scenario ==
    << Column(<<"a","m","o","u","n","t">>, "number", SampleCap, 0, FALSE, MaxCategories + 1),
       Column(<<"c","a","t","e","g","o","r","y">>, "object", SampleCap, 0, FALSE, 5),
       Column(<<"d","a","t","e">>, "object", SampleCap, SampleCap, FALSE, MaxCategories + 1) >>
d_two_numeric ==
    << Column(n_amt, "number", 4, 0, FALSE, MaxCategories + 1),
       Column(n_qty, "number", 4, 0, FALSE, 5) >>
d_empty == << >>
AppDatasets == {d_scenario, d_two_numeric, d_empty}

\* the values of max_suggestions the model passes: -MaxArgBelow .. MaxArgAbove
MaxArgBelow == 3
MaxArgAbove == 10

\* the pieces custom prompts are put together from, and how many at most
MaxPieces == 2
PromptPieces ==
    { kw_describe, <<"S","u","m","m","a","r","i","z","e"," ","t","h","e"," ","d","a","t","a","s","e","t">>, <<" ">>, <<"T","o","p"," ","1","0"," ","c","o","u","n","t","s"," ","f","o","r"," ","t","h","e"," ","c","a","t","e","g","o","r","i","c","a","l"," ","c","o","l","u","m","n"," ">>,
      <<"t","o","p"," ","1","0"," ","c","o","u","n","t","s"," ">>, <<"'","a","m","t","'">>, <<"\"","q","t","y","\"">>, <<"\"","o","'","c","\"">>, <<"'">>, <<"D","e","s","c","r","i","b","e"," ">>, <<"s","u","m","m","a","r","y"," ","s","t","a","t","i","s","t","i","c","s">>,
      <<"C","r","e","a","t","e"," ","a"," ","h","i","s","t","o","g","r","a","m"," ","o","f"," ","t","h","e"," ","n","u","m","e","r","i","c"," ","c","o","l","u","m","n"," ">>, <<"s","c","a","t","t","e","r"," ","p","l","o","t"," ","c","o","m","p","a","r","i","n","g"," ","'","a","m","t","'"," ","(","x",")"," ","v","s"," ","'","q","t","y","'"," ","(","y",")">>,
      <<"s","c","a","t","t","e","r"," ","p","l","o","t"," ","c","o","m","p","a","r","i","n","g"," ","'","a","m","t","'"," ","\\","x","\\"," ","v","s"," ","'","q","t","y","'"," ","\\","y","\\">>,
      <<"S","h","o","w"," ","t","h","e"," ","t","o","p"," ","1","0"," ","r","o","w","s"," ","s","o","r","t","e","d"," ","b","y"," ">>, <<"S","H","O","W"," ","T","H","E"," ","T","O","P"," ","1","0"," ","R","O","W","S"," ","S","O","R","T","E","D"," ","B","Y"," ","'","a","m","t","'">>,
      <<"m","o","n","t","h","l","y"," ","s","u","m"," ","o","f"," ","'","a","m","t","'"," ","u","s","i","n","g"," ","t","h","e"," ","d","a","t","e","t","i","m","e"," ","c","o","l","u","m","n"," ">>,
      <<"c","o","u","n","t","s"," ","p","e","r"," ","m","o","n","t","h"," ","u","s","i","n","g"," ","t","h","e"," ","d","a","t","e","t","i","m","e"," ","c","o","l","u","m","n"," ">>, <<"c","o","r","r","e","l","a","t","i","o","n"," ","h","e","a","t","m","a","p">>,
      <<"a","n","o","m","a","l","i","e","s"," ","b","y"," ","z","-","s","c","o","r","e">>, <<"t","e","l","l"," ","m","e"," ","a"," ","j","o","k","e">> }

RECURSIVE concat(_)
concat(ps) == IF ps = <<>> THEN <<>> ELSE Head(ps) \o concat(Tail(ps))

\* the prompts typed by hand
TypedPrompts == {concat(ps) : ps \in UNION {[1..n -> PromptPieces] : n \in 0..MaxPieces}}

(***************************************************************************)
(* The state machine                                                       *)
(***************************************************************************)

\* app.py before a file is uploaded (lines 48-55)
Init ==
    /\ pc = "no_file"
    /\ df = <<>>
    /\ Blank

\* lines 57-63: load_data gives the dataset d
Load(d) ==
    /\ pc = "no_file"
    /\ df' = d
    /\ pc' = "loaded"
    /\ UNCHANGED <<types, max_suggestions, suggestions, selected, final_prompt, code,
                   frag, figs_before, open_figs, res, raised, use_llm, llm_out, runs, shown>>

\* a call of _detect_column_types(df)
Profile ==
    /\ pc = "loaded"
    /\ types' = detect_column_types(df)
    /\ pc' = "profiled"
    /\ UNCHANGED <<df, max_suggestions, suggestions, selected, final_prompt, code,
                   frag, figs_before, open_figs, res, raised, use_llm, llm_out, runs, shown>>

\* a call of suggest_prompts(df, n)
Suggest(n) ==
    /\ pc = "loaded"
    /\ max_suggestions' = n
    /\ suggestions' = suggest_prompts(df, n)
    /\ pc' = "suggested"
    /\ UNCHANGED <<df, types, selected, final_prompt, code,
                   frag, figs_before, open_figs, res, raised, use_llm, llm_out, runs, shown>>

\* a call of prompt_to_code(p, df)
Translate(p) ==
    /\ pc = "loaded"
    /\ final_prompt' = p
    /\ code' = prompt_to_code(p, df)
    /\ pc' = "translated"
    /\ UNCHANGED <<df, types, max_suggestions, suggestions, selected,
                   frag, figs_before, open_figs, res, raised, use_llm, llm_out, runs, shown>>

\* line 72: suggestions = suggest_prompts(df), offered in the select box
ShowSuggestions ==
    /\ pc = "loaded"
    /\ max_suggestions' = DefaultMaxSuggestions
    /\ suggestions' = suggest_prompts(df, DefaultMaxSuggestions)
    /\ pc' = "ready"
    /\ UNCHANGED <<df, types, selected, final_prompt, code,
                   frag, figs_before, open_figs, res, raised, use_llm, llm_out, runs, shown>>

\* lines 78-104: the user selects suggestion i, types custom, sets the LLM
\* check box and presses "Run analysis"; the prompt is translated
RunAnalysis(i, custom, llm) ==
    /\ pc = "ready"
    /\ i \in 1..Len(suggestions)
    /\ selected' = i
    /\ use_llm' = llm
    /\ final_prompt' = final_prompt_of(custom, suggestions[i])
    /\ code' = prompt_to_code(final_prompt', df)
    /\ runs' = 0
    /\ pc' = IF code' # None THEN "matched" ELSE "no_match"
    /\ UNCHANGED <<df, types, max_suggestions, suggestions,
                   frag, figs_before, open_figs, res, raised, llm_out, shown>>

\* the fragment f is run by run_code with the figures of the process
Sandbox(f) ==
    /\ Len(open_figs) + (IF f.fig = "none" THEN 0 ELSE 1) <= MaxFigs
    /\ LET o == run_code(f, open_figs)
       IN  /\ frag' = f
           /\ res' = o.res
           /\ raised' = o.raised
           /\ figs_before' = open_figs
           /\ open_figs' = o.figs

\* a call of run_code(df, code) for the fragment f
Run(f) ==
    /\ Sandbox(f)
    /\ pc' = "ran"
    /\ UNCHANGED <<df, types, max_suggestions, suggestions, selected, final_prompt, code,
                   use_llm, llm_out, runs, shown>>

\* lines 105-106: the synthesized code is run
ExecSynthesized ==
    /\ pc = "matched"
    /\ \E f \in Effects(code, df) : Sandbox(f)
    /\ runs' = runs + 1
    /\ pc' = IF raised' = "none" THEN "display" ELSE "crashed"
    /\ UNCHANGED <<df, types, max_suggestions, suggestions, selected, final_prompt, code,
                   use_llm, llm_out, shown>>

\* lines 137-143: no template and no LLM
StopNoLLM ==
    /\ pc = "no_match"
    /\ ~use_llm
    /\ shown' = "cannot be converted deterministically"
    /\ pc' = "stopped"
    /\ UNCHANGED <<df, types, max_suggestions, suggestions, selected, final_prompt, code,
                   frag, figs_before, open_figs, res, raised, use_llm, llm_out, runs>>

\* lines 110-116: the provider is asked
AskLLM ==
    /\ pc = "no_match"
    /\ use_llm
    /\ llm_out' \in LLMOutputs
    /\ pc' = "answered"
    /\ UNCHANGED <<df, types, max_suggestions, suggestions, selected, final_prompt, code,
                   frag, figs_before, open_figs, res, raised, use_llm, runs, shown>>

\* lines 118-121: the answer starts with the error sentinel
StopLLMError ==
    /\ pc = "answered"
    /\ startswith(llm_out, llm_sentinel)
    /\ shown' = "Groq LLM returned an error."
    /\ pc' = "stopped"
    /\ UNCHANGED <<df, types, max_suggestions, suggestions, selected, final_prompt, code,
                   frag, figs_before, open_figs, res, raised, use_llm, llm_out, runs>>

\* a plausible slip: the answer is not tested for the error sentinel before
\* its python block is run
ExecFromLLM_Unchecked ==
    /\ pc = "answered"
    /\ contains(llm_out, fence_python)
    /\ code' = Code("llm", <<before_first(after_first(llm_out, fence_python), fence)>>)
    /\ \E f \in Effects(code', df) : Sandbox(f)
    /\ runs' = runs + 1
    /\ pc' = IF raised' = "none" THEN "display" ELSE "crashed"
    /\ UNCHANGED <<df, types, max_suggestions, suggestions, selected, final_prompt,
                   use_llm, llm_out, shown>>

\* lines 124-127: the python block is cut out of the answer and run
ExecFromLLM ==
    /\ pc = "answered"
    /\ ~startswith(llm_out, llm_sentinel)
    /\ contains(llm_out, fence_python)
    /\ code' = Code("llm", <<before_first(after_first(llm_out, fence_python), fence)>>)
    /\ \E f \in Effects(code', df) : Sandbox(f)
    /\ runs' = runs + 1
    /\ pc' = IF raised' = "none" THEN "display" ELSE "crashed"
    /\ UNCHANGED <<df, types, max_suggestions, suggestions, selected, final_prompt,
                   use_llm, llm_out, shown>>

\* lines 133-136: the answer holds no python block
StopNoBlock ==
    /\ pc = "answered"
    /\ ~startswith(llm_out, llm_sentinel)
    /\ ~contains(llm_out, fence_python)
    /\ shown' = "LLM did not return a python code block."
    /\ pc' = "stopped"
    /\ UNCHANGED <<df, types, max_suggestions, suggestions, selected, final_prompt, code,
                   frag, figs_before, open_figs, res, raised, use_llm, llm_out, runs>>

\* lines 147-167: the result is displayed
Display ==
    /\ pc = "display"
    /\ shown' = res.type
    /\ pc' = "done"
    /\ UNCHANGED <<df, types, max_suggestions, suggestions, selected, final_prompt, code,
                   frag, figs_before, open_figs, res, raised, use_llm, llm_out, runs>>

\* the script runs again from the top on the next interaction: its variables
\* are new, the dataset is loaded again, plt's figures are those of the process
Rerun ==
    /\ pc \in {"stopped", "done", "crashed"}
    /\ pc' = "ready"
    /\ suggestions' = suggest_prompts(df, DefaultMaxSuggestions)
    /\ selected' = 0
    /\ final_prompt' = <<>>
    /\ code' = None
    /\ frag' = Fragment("none", "none", "unset", "unset", <<>>)
    /\ res' = NoResult
    /\ raised' = "none"
    /\ use_llm' = FALSE
    /\ llm_out' = <<>>
    /\ runs' = 0
    /\ shown' = "nothing"
    /\ figs_before' = <<>>
    /\ UNCHANGED <<df, types, max_suggestions, open_figs>>

\* the application: upload, suggestions, "Run analysis", display
Next ==
    \/ \E d \in AppDatasets : Load(d)
    \/ ShowSuggestions
    \/ \E i \in 1..(DefaultMaxSuggestions + 1), custom \in CustomTexts, llm \in BOOLEAN :
          RunAnalysis(i, custom, llm)
    \/ ExecSynthesized
    \/ StopNoLLM
    \/ AskLLM
    \/ StopLLMError
    \/ ExecFromLLM
    \/ StopNoBlock
    \/ Display
    \/ Rerun

Spec == Init /\ [][Next]_vars

\* the schema profiler on every dataset
NextProfile ==
    \/ \E d \in ProfileDatasets : Load(d)
    \/ Profile

SpecProfile == Init /\ [][NextProfile]_vars

\* the suggestion generator with every max_suggestions, and the translation of
\* each suggestion the select box offers
NextPrompt ==
    \/ \E d \in PromptDatasets : Load(d)
    \/ \E n \in (0 - MaxArgBelow)..MaxArgAbove : Suggest(n)
    \/ ShowSuggestions
    \/ \E i \in 1..(DefaultMaxSuggestions + 1) : RunAnalysis(i, <<>>, FALSE)

SpecPrompt == Init /\ [][NextPrompt]_vars

\* the round trip on plainly named columns: every suggestion is translated
NextRoundTrip ==
    \/ \E d \in PlainDatasets : Load(d)
    \/ ShowSuggestions
    \/ \E i \in 1..(DefaultMaxSuggestions + 1) : RunAnalysis(i, <<>>, FALSE)

SpecRoundTrip == Init /\ [][NextRoundTrip]_vars

\* the intent matcher on typed prompts
NextMatch ==
    \/ Load(d_scenario)
    \/ \E p \in TypedPrompts : Translate(p)

SpecMatch == Init /\ [][NextMatch]_vars

\* a session of run_code calls in one process
NextRun ==
    \E f \in Fragments : Run(f)

SpecRun == Init /\ [][NextRun]_vars

(***************************************************************************)
(* The claims                                                              *)
(***************************************************************************)

\* "Run analysis" was pressed on suggestion `selected`, with nothing typed
SuggestionTranslated ==
    /\ pc \in {"matched", "no_match"}
    /\ selected \in 1..Len(suggestions)
    /\ final_prompt = suggestions[selected]

\* C1: every prompt suggest_prompts produces is translated by prompt_to_code
\* to code, never to None.
C1_RoundTrip ==
    SuggestionTranslated => code # None

\* s shares no element with t
Apart(s, t) == \A i \in 1..Len(s) : ~inList(s[i], t)

\* C2: the numeric, datetime and categorical lists of _detect_column_types
\* are pairwise disjoint and hold only columns of the dataset; no numeric
\* column is in the datetime list, whatever date-parsing its sample gives.
C2_Partition ==
    pc = "profiled" =>
        /\ Apart(types.numeric, types.datetime)
        /\ Apart(types.numeric, types.categorical)
        /\ Apart(types.datetime, types.categorical)
        /\ \A i \in 1..Len(df) : df[i].dtype = "number" => ~inList(df[i].name, types.datetime)
        /\ \A c \in {types.numeric[i] : i \in 1..Len(types.numeric)}
                 \cup {types.datetime[i] : i \in 1..Len(types.datetime)}
                 \cup {types.categorical[i] : i \in 1..Len(types.categorical)} :
               inList(c, columns(df))

\* the figures open when run_code classifies: those open at the call and the
\* one the fragment opened
FigsAtClassify ==
    IF frag.fig = "none" THEN figs_before ELSE Append(figs_before, frag.fig)

\* the result kinds of the priority list, first applicable first
PriorityHolds ==
    /\ raised = "none"
    /\ IF frag.img \notin {"unset", "None", ""}
       THEN res = ImageResult(frag.img)
       ELSE IF FigsAtClassify # <<>>
       THEN res.type = "image" /\ res.content = "NamedTemporaryFile.png"
       ELSE IF frag.result # "unset"
       THEN IF frag.result = "DataFrame" THEN res.type = "dataframe"
            ELSE res = TextResult(<<"str(result) of", frag>>)
       ELSE IF strip(frag.out) # <<>>
       THEN res = TextResult(strip(frag.out))
       ELSE res = TextResult(<<"Execution finished. No result produced.">>)

\* C3 as stated: whenever the executed code raises nothing, the outcome is the
\* first applicable of: explicit image path, saved figure, result variable,
\* printed text, "no result".
C3_PriorityWheneverExecReturns ==
    (pc = "ran" /\ frag.exc = "none") => PriorityHolds

\* a step of the classification itself raises: the truth test of
\* result_img_path, plt.savefig, or str(result)
ClassificationRaises ==
    \/ frag.img = "array"
    \/ /\ frag.img \in {"unset", "None", ""}
       /\ FigsAtClassify # <<>>
       /\ FigsAtClassify[Len(FigsAtClassify)] = "bad"
    \/ /\ frag.img \in {"unset", "None", ""}
       /\ FigsAtClassify = <<>>
       /\ frag.result = "unprintable"

\* C3, amended: when neither the executed code nor a classification step
\* (truth-testing result_img_path, saving the figure, str(result)) raises,
\* the outcome is the first applicable of the priority list; an open figure
\* wins over a result variable, a result variable over printed text.
C3_PriorityWhenNothingRaises ==
    (pc = "ran" /\ frag.exc = "none" /\ ~ClassificationRaises) => PriorityHolds

\* C3 witness: a figure is open, result is set and text was printed, and the
\* call returned the image of the saved figure.
C3_Witness ==
    /\ pc = "ran"
    /\ frag.exc = "none"
    /\ frag.img = "None"
    /\ frag.fig = "ok"
    /\ frag.result = "DataFrame"
    /\ strip(frag.out) # <<>>
    /\ res = ImageResult("NamedTemporaryFile.png")

\* C4: no failure leaves run_code: whatever the fragment raises, SystemExit
\* and KeyboardInterrupt included, the call returns a text result that begins
\* with "Execution error: ".
C4_NothingPropagates ==
    pc = "ran" =>
        /\ raised = "none"
        /\ (frag.exc # "none" \/ ClassificationRaises) =>
               (res.type = "text" /\ res.content[1] = "Execution error: ")

\* C5: after a call that returns an image, no figure is open.
C5_NoFigureLeak ==
    (pc = "ran" /\ res.type = "image") => open_figs = <<>>

\* C6: running the same fragment twice in a row gives the same kind of result
\* and the same table or text, whatever earlier calls left behind.
C6_Idempotent ==
    [][(pc = "ran" /\ pc' = "ran" /\ frag' = frag) =>
          (/\ res'.type = res.type
           /\ raised' = raised
           /\ res.type \in {"dataframe", "text"} => res'.content = res.content)]_vars

\* the claim's priority order of the suggestion kinds
Rank(kind) ==
    CASE kind = "summary" -> 1
      [] kind = "top_counts" -> 2
      [] kind = "describe" -> 3
      [] kind = "histogram" -> 4
      [] kind = "scatter" -> 5
      [] kind = "top_rows" -> 6
      [] kind \in {"monthly_sum", "counts_per_month"} -> 7
      [] kind = "corr_heatmap" -> 8
      [] kind = "anomalies" -> 9

\* the list returned: not empty, at most max_suggestions long, the summary
\* prompt first, the kinds in priority order
SuggestionsWellFormed ==
    /\ Len(suggestions) >= 1
    /\ Len(suggestions) <= max_suggestions
    /\ suggestions[1] = p_summary
    /\ \A i \in 1..Len(suggestions) : suggestions[i] = all_suggestions(df)[i].text
    /\ \A i \in 1..(Len(suggestions) - 1) :
           Rank(all_suggestions(df)[i].kind) < Rank(all_suggestions(df)[i + 1].kind)

\* C7 as stated: for every integer max_suggestions the list is not empty, at
\* most max_suggestions long, starts with the summary prompt and keeps the
\* priority order.
C7_ForEveryArgument ==
    pc = "suggested" => SuggestionsWellFormed

\* C7, amended: for every max_suggestions >= 1 the list is not empty, at most
\* max_suggestions long, starts with the summary prompt and is a prefix of
\* the suggestions in priority order.
C7_ForPositiveArgument ==
    (pc = "suggested" /\ max_suggestions >= 1) => SuggestionsWellFormed

\* C7 witness: a list cut to max_suggestions = 3 from a longer one.
C7_Witness ==
    /\ pc = "suggested"
    /\ max_suggestions = 3
    /\ Len(suggestions) = 3
    /\ Len(all_suggestions(df)) > 3

\* the handler has passed the point where it runs code or stops
Decided == pc \in {"stopped", "display", "done", "crashed"}

\* the provider was asked and has answered
Asked == use_llm /\ code.intent \in {"None", "llm"} /\ (pc = "answered" \/ Decided)

\* C8: one "Run analysis" runs the sandbox at most once, and not at all when
\* (a) nothing matched and the LLM is off (the instructional error is shown),
\* (b) the answer starts with [LLM-error], (c) the answer has no python fence;
\* these stop before the display, which is reached only with a result of
\* run_code.
C8_SandboxAtMostOnce ==
    /\ runs <= 1
    /\ (Decided /\ code = None /\ ~use_llm) =>
           (runs = 0 /\ pc = "stopped" /\ shown = "cannot be converted deterministically")
    /\ (Decided /\ Asked /\ startswith(llm_out, llm_sentinel)) =>
           (runs = 0 /\ pc = "stopped" /\ shown = "Groq LLM returned an error.")
    /\ (Decided /\ Asked /\ ~contains(llm_out, fence_python)) =>
           (runs = 0 /\ pc = "stopped")
    /\ pc = "stopped" => (runs = 0 /\ res = NoResult)
    /\ pc \in {"display", "done"} => (runs = 1 /\ res # NoResult /\ raised = "none")

\* C8 witness: the answer starts with the sentinel and also holds a python
\* block; the handler stopped without running it.
C8_Witness ==
    /\ pc = "stopped"
    /\ Asked
    /\ startswith(llm_out, llm_sentinel)
    /\ contains(llm_out, fence_python)
    /\ runs = 0

\* C9: the code for a suggestion that embeds column names is the code of the
\* same intent with the same names, character for character.
C9_VerbatimColumns ==
    (SuggestionTranslated /\ all_suggestions(df)[selected].cols # <<>>) =>
        /\ code.intent = all_suggestions(df)[selected].kind
        /\ code.cols = all_suggestions(df)[selected].cols

\* template i both recognizes the prompt and finds its parameters
Applies(i, prompt) ==
    /\ Recognizes(i, lower(strip(prompt)))
    /\ i \in {2, 4, 5, 6, 7, 8} => Groups(i, prompt) # NoMatch

\* C10: the first template, in the fixed order, whose recognizer matches the
\* trimmed, lowered prompt and whose parameters can be extracted from the
\* original prompt gives the code; a template that matches without its
\* parameters is passed over; None is returned exactly when none applies.
C10_FirstApplicableWins ==
    pc = "translated" =>
        LET hits == {i \in 1..Len(Intents) : Applies(i, final_prompt)}
        IN  IF hits = {} THEN code = None
            ELSE LET first == CHOOSE i \in hits : \A k \in hits : i <= k
                 IN  /\ code # None
                     /\ code.intent = Intents[first]
                     /\ code.cols = Params(first, Groups(first, final_prompt))

\* C10 witness: a template recognized the prompt, its column could not be
\* extracted, and a later template gave the code.
C10_Witness ==
    /\ pc = "translated"
    /\ code # None
    /\ \E i \in {2, 4, 5, 6, 7, 8} :
          /\ Recognizes(i, lower(strip(final_prompt)))
          /\ Groups(i, final_prompt) = NoMatch
          /\ \E k \in (i + 1)..Len(Intents) : code.intent = Intents[k]

\* the name ends or escapes the single-quoted literal '{col}' it is put into:
\* it holds a single quote or a newline, or its last character is a backslash
EndsOrEscapesLiteral(col) ==
    \/ \E k \in 1..Len(col) : col[k] \in {SQ, "\n"}
    \/ col # <<>> /\ col[Len(col)] = "\\"

\* C11: every column name prompt_to_code puts into a single-quoted literal of
\* the code it returns is free of characters that end or escape the literal
\* (no single quote, no trailing backslash, no newline), whichever template
\* gave the code and whether the name came from a single-quoted or, for the
\* top-10-counts template, a double-quoted token of the prompt.
C11_NamesStayInsideLiterals ==
    (pc = "translated" /\ code # None) =>
        \A k \in 1..Len(code.cols) : ~EndsOrEscapesLiteral(code.cols[k])

====
